---- MODULE Spec2Model ----
(***************************************************************************)
(* A model of kookie-cli's vault engine (src/src/vault/mod.rs): one Vault  *)
(* handle (data, key, salt) over one vault file at its path.               *)
(*                                                                         *)
(* Option<T> is a sequence of length 0 (None) or 1 (Some(x)).              *)
(* crypto::kdf, crypto::cipher and vault::storage are declared in the      *)
(* sources (mod.rs:3-4, crypto/mod.rs:3-6) but their bodies are not part   *)
(* of them; they are modelled from their contracts (spec 4.1-4.3):         *)
(* derive_key is a deterministic injective function of (password, salt),   *)
(* a token authenticates under exactly the key that produced it, and a     *)
(* write that fails leaves the file as it was.                             *)
(***************************************************************************)
EXTENDS Integers, Sequences, FiniteSets, TLC

VARIABLES
    data,       \* Vault.data: the in-memory VaultData
    key,        \* Vault.key: Option<[u8; 32]>
    salt,       \* Vault.salt: String
    file,       \* the file at Vault.path: Option<VaultFile>
    salts,      \* how many salts kdf::generate_salt has produced so far
    now,        \* Utc::now()
    last,       \* the most recent call on the handle and what it returned
    session,    \* history: init(P) returned Ok and every call since was an Ok add/delete (then lock, or unlock(P))
    sinceLock,  \* history: lock() was called and no unlock/init/init_force has returned Ok since
    residue,    \* the key bytes the last call, a lock(), left in the field it cleared
    again       \* history: the last call is a delete_* whose query the call before it, a delete_* that returned Ok, also had

vars == <<data, key, salt, file, salts, now, last, session, sinceLock, residue, again>>

(***************************************************************************)
(* Bounds and input sets                                                   *)
(***************************************************************************)
MaxSalts == 2
MaxTime == 2

Passwords == {"p1", "p2"}

None == << >>
Some(x) == <<x>>

\* VaultData's five sequences, in declaration order.
Kinds == <<"passwords", "api_keys", "notes", "db_credentials", "tokens">>
KindSet == {Kinds[i] : i \in 1..Len(Kinds)}

\* An entry: id, name, and the remaining (kind-specific) fields as one payload.
Entry(id, name, secret) == [id |-> id, name |-> name, secret |-> secret]

\* e1 and e3 share a name and differ elsewhere; e2's id is e1's name and
\* e2's name is e1's id; e4 shares nothing with the others.
e1 == Entry("u1", "gh", "x")
e2 == Entry("gh", "u1", "x")
e3 == Entry("u3", "gh", "y")
e4 == Entry("u4", "aws", "z")

\* Inputs of the full life cycle (Spec): a duplicate name within a kind, the
\* same name in another kind, and a kind that stays empty.
AddInputs == {<<"passwords", e1>>, <<"passwords", e3>>, <<"api_keys", e1>>}
QueryInputs ==
    {<<"passwords", "gh">>, <<"passwords", "u3">>, <<"api_keys", "u1">>,
     <<"notes", "gh">>}

\* Inputs of the collection operations (SpecCrud): sequences of up to three
\* entries in every order, where a query is one entry's name and another's id.
CrudInputs ==
    {<<"passwords", e1>>, <<"passwords", e2>>, <<"passwords", e3>>,
     <<"passwords", e4>>, <<"api_keys", e1>>}
CrudQueries ==
    {<<"passwords", "u1">>, <<"passwords", "gh">>, <<"passwords", "u3">>,
     <<"passwords", "aws">>, <<"api_keys", "gh">>, <<"tokens", "u1">>}

\* Inputs for one kind alone (SpecOneKind): passwords.
OneKindInputs == {e1, e2, e4}
OneKindQueries == {"u1", "gh", "aws"}

\* Inputs of the lock/unlock round trip (SpecTrip): two kinds, two orders.
TripInputs == {<<"passwords", e1>>, <<"passwords", e2>>, <<"api_keys", e3>>}
TripQueries == {<<"passwords", "u1">>, <<"api_keys", "u3">>}

SaveOutcomes == {"Ok", "EncryptionError", "IoError"}
LoadOutcomes == {"Ok", "IoError"}

(***************************************************************************)
(* VaultData and its JSON form                                             *)
(***************************************************************************)
VaultDataDefault == [k \in KindSet |-> << >>]

\* A JSON object: a sequence of <<key, value>> members in field order.
Member(obj, k) == obj[CHOOSE i \in 1..Len(obj) : obj[i][1] = k][2]

SerEntry(e) == << <<"id", e.id>>, <<"name", e.name>>, <<"secret", e.secret>> >>

DeEntry(o) == Entry(Member(o, "id"), Member(o, "name"), Member(o, "secret"))

RECURSIVE SerSeq(_)
SerSeq(s) == IF s = << >> THEN << >> ELSE <<SerEntry(Head(s))>> \o SerSeq(Tail(s))

RECURSIVE DeSeq(_)
DeSeq(a) == IF a = << >> THEN << >> ELSE <<DeEntry(Head(a))>> \o DeSeq(Tail(a))

RECURSIVE SerFields(_, _)
SerFields(d, i) ==
    IF i > Len(Kinds) THEN << >>
    ELSE << <<Kinds[i], SerSeq(d[Kinds[i]])>> >> \o SerFields(d, i + 1)

\* serde_json::to_vec(&self.data)
to_vec(d) == SerFields(d, 1)

\* serde_json::from_slice(&decrypted)
from_slice(pt) == [k \in KindSet |-> DeSeq(Member(pt, k))]

(***************************************************************************)
(* Key derivation, cipher, storage                                         *)
(***************************************************************************)
EmptySalt == 0          \* String::new()
MalformedSalt == 0 - 1  \* a salt string that is not a valid salt encoding

\* kdf::generate_salt(): the n-th call returns a salt no earlier call returned.
generate_salt(n) == n + 1

\* kdf::derive_key(password, salt): Result<[u8; 32], KdfError>
derive_key(pw, s) == IF s >= 1 THEN Some([pw |-> pw, salt |-> s]) ELSE None

\* cipher::encrypt(key, plaintext): the token
encrypt(k, pt) == [key |-> k, pt |-> pt, tag |-> TRUE]

\* cipher::decrypt(key, token): Result<Vec<u8>, _>
decrypt(k, tok) == IF tok.tag /\ tok.key = k THEN Some(tok.pt) ELSE None

\* storage::save_vault_file(path, vault_file): what the file is afterwards
save_vault_file(f, vf, out) == IF out = "IoError" THEN f ELSE Some(vf)

\* Vault::exists
exists == file # None

(***************************************************************************)
(* Vault::save, as a function of the handle's fields                       *)
(***************************************************************************)
\* save as it would be if the envelope's salt were left empty.
save_without_salt(d, k, s, f, t, out) ==
    IF k = None THEN [res |-> "WrongPassword", file |-> f]
    ELSE IF out = "EncryptionError" THEN [res |-> "EncryptionError", file |-> f]
    ELSE LET vault_file == [version |-> 1,
                            salt |-> EmptySalt,
                            encrypted_data |-> encrypt(k[1], to_vec(d)),
                            created_at |-> t,
                            modified_at |-> t]
         IN  [res |-> IF out = "IoError" THEN "IoError" ELSE "Ok",
              file |-> save_vault_file(f, vault_file, out)]

save(d, k, s, f, t, out) ==
    IF k = None THEN [res |-> "WrongPassword", file |-> f]
    ELSE IF out = "EncryptionError" THEN [res |-> "EncryptionError", file |-> f]
    ELSE LET vault_file == [version |-> 1,
                            salt |-> s,
                            encrypted_data |-> encrypt(k[1], to_vec(d)),
                            created_at |-> t,
                            modified_at |-> t]
         IN  [res |-> IF out = "IoError" THEN "IoError" ELSE "Ok",
              file |-> save_vault_file(f, vault_file, out)]

(***************************************************************************)
(* Lookup                                                                  *)
(***************************************************************************)
Matches(e, q) == e.id = q \/ e.name = q

\* iter().position(|p| p.id == q || p.name == q): 0 stands for None
position(s, q) ==
    IF \E i \in 1..Len(s) : Matches(s[i], q)
    THEN CHOOSE i \in 1..Len(s) :
             /\ Matches(s[i], q)
             /\ \A j \in 1..(i - 1) : ~Matches(s[j], q)
    ELSE 0

\* find as it would be if it searched from the back (rfind).
find_last(s, q) ==
    IF position(s, q) = 0 THEN None
    ELSE Some(s[CHOOSE i \in 1..Len(s) :
                    /\ Matches(s[i], q)
                    /\ \A j \in (i + 1)..Len(s) : ~Matches(s[j], q)])

\* iter().find(|p| p.id == q || p.name == q)
find(s, q) == IF position(s, q) = 0 THEN None ELSE Some(s[position(s, q)])

\* any as it would be if it compared ids with the new name.
any_id(s, name) == \E i \in 1..Len(s) : s[i].id = name

\* iter().any(|p| p.name == name)
any_name(s, name) == \E i \in 1..Len(s) : s[i].name = name

\* remove as it would be if it dropped the last element (pop).
remove_pop(s, idx) == SubSeq(s, 1, Len(s) - 1)

\* Vec::remove(idx)
remove(s, idx) == SubSeq(s, 1, idx - 1) \o SubSeq(s, idx + 1, Len(s))

(***************************************************************************)
(* What a call leaves behind: its record and the two history variables     *)
(***************************************************************************)
NoSession == [pw |-> "", st |-> "none"]

\* arg is the call's string argument: the master password, the query, or the
\* id of the entry to add.
Returns(op, res, ret, arg) ==
    /\ last' = [op |-> op, arg |-> arg, res |-> res, ret |-> ret]
    /\ session' =
         IF op = "init" /\ res = "Ok" THEN [pw |-> arg, st |-> "open"]
         ELSE IF op = "unlock" /\ res = "Ok" /\ session = [pw |-> arg, st |-> "locked"]
              THEN [pw |-> arg, st |-> "reloaded"]
         ELSE IF op = "unlock" /\ res = "Ok" /\ session = [pw |-> arg, st |-> "open"]
              THEN [pw |-> arg, st |-> "reopened"]
         ELSE IF op \in {"add", "delete"} /\ res = "Ok" /\ session.st = "open"
              THEN session
         ELSE IF op = "lock" /\ session.st = "open"
              THEN [session EXCEPT !.st = "locked"]
         ELSE NoSession
    /\ sinceLock' =
         IF op = "lock" THEN TRUE
         ELSE IF op \in {"unlock", "init", "init_force"} /\ res = "Ok" THEN FALSE
         ELSE IF op = "new" THEN FALSE
         ELSE sinceLock
    \* lock's `self.key = None` stores the variant; nothing writes the 32 bytes
    \* of the key it replaces, so they are gone or still there, as the build has it.
    /\ residue' \in (IF op = "lock" THEN {None, key} ELSE {None})
    /\ again' = (op = "delete" /\ last.op = "delete" /\ last.res = "Ok"
                    /\ last.arg = arg)

(***************************************************************************)
(* The operations of Vault                                                 *)
(***************************************************************************)
Init ==
    /\ data = VaultDataDefault
    /\ key = None
    /\ salt = EmptySalt
    /\ file = None
    /\ salts = 0
    /\ now = 0
    /\ last = [op |-> "new", arg |-> "", res |-> "Ok", ret |-> None]
    /\ session = NoSession
    /\ sinceLock = FALSE
    /\ residue = None
    /\ again = FALSE

\* Vault::new(): a fresh handle on the same path.
new ==
    /\ data' = VaultDataDefault
    /\ key' = None
    /\ salt' = EmptySalt
    /\ Returns("new", "Ok", None, "")
    /\ UNCHANGED <<file, salts, now>>

\* initialize as it would be if self.data were not reset.
initialize_keeping_data(op, pw, out) ==
    /\ salts < MaxSalts
    /\ salts' = salts + 1
    /\ salt' = generate_salt(salts)
    /\ LET k == derive_key(pw, generate_salt(salts))
       IN  IF k = None
           THEN /\ Returns(op, "KdfError", None, pw)
                /\ UNCHANGED <<data, key, file, now>>
           ELSE LET r == save(data, k, generate_salt(salts), file, now, out)
                IN  /\ key' = k
                    /\ file' = r.file
                    /\ Returns(op, r.res, None, pw)
                    /\ UNCHANGED <<data, now>>

\* The body init and init_force share (mod.rs:86-94 and 99-107).
initialize(op, pw, out) ==
    /\ salts < MaxSalts
    /\ salts' = salts + 1
    /\ salt' = generate_salt(salts)
    /\ LET k == derive_key(pw, generate_salt(salts))
       IN  IF k = None
           THEN /\ Returns(op, "KdfError", None, pw)
                /\ UNCHANGED <<data, key, file, now>>
           ELSE LET r == save(VaultDataDefault, k, generate_salt(salts), file, now, out)
                IN  /\ key' = k
                    /\ data' = VaultDataDefault
                    /\ file' = r.file
                    /\ Returns(op, r.res, None, pw)
                    /\ UNCHANGED now

\* init as it would be without the existence check.
init_unchecked(pw, out) == initialize("init", pw, out)

init(pw, out) ==
    IF exists
    THEN /\ Returns("init", "AlreadyExists", None, pw)
         /\ UNCHANGED <<data, key, salt, file, salts, now>>
    ELSE initialize("init", pw, out)

\* init_force as it would be with init's existence check.
init_force_checked(pw, out) == init(pw, out)

init_force(pw, out) == initialize("init_force", pw, out)

\* unlock as it would be if the derived key were stored before decrypting.
unlock_key_first(pw, ld) ==
    IF ~exists
    THEN /\ Returns("unlock", "NotInitialized", None, pw)
         /\ UNCHANGED <<data, key, salt, file, salts, now>>
    ELSE IF ld = "IoError"
    THEN /\ Returns("unlock", "IoError", None, pw)
         /\ UNCHANGED <<data, key, salt, file, salts, now>>
    ELSE LET vault_file == file[1]
             k == derive_key(pw, vault_file.salt)
             decrypted == IF k = None THEN None
                          ELSE decrypt(k[1], vault_file.encrypted_data)
         IN  /\ salt' = vault_file.salt
             /\ UNCHANGED <<file, salts, now>>
             /\ IF k = None
                THEN /\ Returns("unlock", "KdfError", None, pw)
                     /\ UNCHANGED <<data, key>>
                ELSE IF decrypted = None
                THEN /\ Returns("unlock", "WrongPassword", None, pw)
                     /\ key' = k
                     /\ UNCHANGED data
                ELSE /\ data' = from_slice(decrypted[1])
                     /\ key' = k
                     /\ Returns("unlock", "Ok", None, pw)

\* unlock as it would be without the existence check: the load fails instead.
unlock_unchecked(pw, ld) ==
    IF ~exists \/ ld = "IoError"
    THEN /\ Returns("unlock", "IoError", None, pw)
         /\ UNCHANGED <<data, key, salt, file, salts, now>>
    ELSE LET vault_file == file[1]
             k == derive_key(pw, vault_file.salt)
             decrypted == IF k = None THEN None
                          ELSE decrypt(k[1], vault_file.encrypted_data)
         IN  /\ salt' = vault_file.salt
             /\ UNCHANGED <<file, salts, now>>
             /\ IF k = None
                THEN /\ Returns("unlock", "KdfError", None, pw)
                     /\ UNCHANGED <<data, key>>
                ELSE IF decrypted = None
                THEN /\ Returns("unlock", "WrongPassword", None, pw)
                     /\ UNCHANGED <<data, key>>
                ELSE /\ data' = from_slice(decrypted[1])
                     /\ key' = k
                     /\ Returns("unlock", "Ok", None, pw)

\* unlock as it would be without line 128: the decrypted collection is dropped.
unlock_keeping_data(pw, ld) ==
    IF ~exists
    THEN /\ Returns("unlock", "NotInitialized", None, pw)
         /\ UNCHANGED <<data, key, salt, file, salts, now>>
    ELSE IF ld = "IoError"
    THEN /\ Returns("unlock", "IoError", None, pw)
         /\ UNCHANGED <<data, key, salt, file, salts, now>>
    ELSE LET vault_file == file[1]
             k == derive_key(pw, vault_file.salt)
             decrypted == IF k = None THEN None
                          ELSE decrypt(k[1], vault_file.encrypted_data)
         IN  /\ salt' = vault_file.salt
             /\ UNCHANGED <<file, salts, now>>
             /\ IF k = None
                THEN /\ Returns("unlock", "KdfError", None, pw)
                     /\ UNCHANGED <<data, key>>
                ELSE IF decrypted = None
                THEN /\ Returns("unlock", "WrongPassword", None, pw)
                     /\ UNCHANGED <<data, key>>
                ELSE /\ UNCHANGED data
                     /\ key' = k
                     /\ Returns("unlock", "Ok", None, pw)

unlock(pw, ld) ==
    IF ~exists
    THEN /\ Returns("unlock", "NotInitialized", None, pw)
         /\ UNCHANGED <<data, key, salt, file, salts, now>>
    ELSE IF ld = "IoError"
    THEN /\ Returns("unlock", "IoError", None, pw)
         /\ UNCHANGED <<data, key, salt, file, salts, now>>
    ELSE LET vault_file == file[1]
             k == derive_key(pw, vault_file.salt)
             decrypted == IF k = None THEN None
                          ELSE decrypt(k[1], vault_file.encrypted_data)
         IN  /\ salt' = vault_file.salt
             /\ UNCHANGED <<file, salts, now>>
             /\ IF k = None
                THEN /\ Returns("unlock", "KdfError", None, pw)
                     /\ UNCHANGED <<data, key>>
                ELSE IF decrypted = None
                THEN /\ Returns("unlock", "WrongPassword", None, pw)
                     /\ UNCHANGED <<data, key>>
                ELSE /\ data' = from_slice(decrypted[1])
                     /\ key' = k
                     /\ Returns("unlock", "Ok", None, pw)

lock ==
    /\ key' = None
    /\ Returns("lock", "Ok", None, "")
    /\ UNCHANGED <<data, salt, file, salts, now>>

\* A direct call of the public save().
save_call(out) ==
    LET r == save(data, key, salt, file, now, out)
    IN  /\ file' = r.file
        /\ Returns("save", r.res, None, "")
        /\ UNCHANGED <<data, key, salt, salts, now>>

\* add as it would be if it inserted at the front.
add_front(k, e, out) ==
    IF any_name(data[k], e.name)
    THEN /\ Returns("add", "DuplicateName", None, e.id)
         /\ UNCHANGED <<data, key, salt, file, salts, now>>
    ELSE LET d == [data EXCEPT ![k] = <<e>> \o @]
             r == save(d, key, salt, file, now, out)
         IN  /\ data' = d
             /\ file' = r.file
             /\ Returns("add", r.res, None, e.id)
             /\ UNCHANGED <<key, salt, salts, now>>

\* add as it would be if a failed save undid the push.
add_rollback(k, e, out) ==
    IF any_name(data[k], e.name)
    THEN /\ Returns("add", "DuplicateName", None, e.id)
         /\ UNCHANGED <<data, key, salt, file, salts, now>>
    ELSE LET d == [data EXCEPT ![k] = Append(@, e)]
             r == save(d, key, salt, file, now, out)
         IN  /\ data' = IF r.res = "Ok" THEN d ELSE data
             /\ file' = r.file
             /\ Returns("add", r.res, None, e.id)
             /\ UNCHANGED <<key, salt, salts, now>>

\* add_password, add_api_key, add_note, add_db_credential, add_token
add(k, e, out) ==
    IF any_name(data[k], e.name)
    THEN /\ Returns("add", "DuplicateName", None, e.id)
         /\ UNCHANGED <<data, key, salt, file, salts, now>>
    ELSE LET d == [data EXCEPT ![k] = Append(@, e)]
             r == save(d, key, salt, file, now, out)
         IN  /\ data' = d
             /\ file' = r.file
             /\ Returns("add", r.res, None, e.id)
             /\ UNCHANGED <<key, salt, salts, now>>

\* get_password, get_api_key, get_note, get_db_credential, get_token
get(k, q) ==
    /\ Returns("get", IF find(data[k], q) = None THEN "None" ELSE "Some",
               find(data[k], q), q)
    /\ UNCHANGED <<data, key, salt, file, salts, now>>

\* delete_password, delete_api_key, delete_note, delete_db_credential, delete_token
delete(k, q, out) ==
    LET idx == position(data[k], q)
    IN  IF idx = 0
        THEN /\ Returns("delete", "SecretNotFound", None, q)
             /\ UNCHANGED <<data, key, salt, file, salts, now>>
        ELSE LET removed == data[k][idx]
                 d == [data EXCEPT ![k] = remove(@, idx)]
                 r == save(d, key, salt, file, now, out)
             IN  /\ data' = d
                 /\ file' = r.file
                 /\ Returns("delete", r.res,
                            IF r.res = "Ok" THEN Some(removed) ELSE None, q)
                 /\ UNCHANGED <<key, salt, salts, now>>

Next ==
    \/ new
    \/ \E pw \in Passwords, out \in SaveOutcomes : init(pw, out)
    \/ \E pw \in Passwords, out \in SaveOutcomes : init_force(pw, out)
    \/ \E pw \in Passwords, ld \in LoadOutcomes : unlock(pw, ld)
    \/ lock
    \/ \E out \in SaveOutcomes : save_call(out)
    \/ \E in \in AddInputs, out \in SaveOutcomes : add(in[1], in[2], out)
    \/ \E qi \in QueryInputs : get(qi[1], qi[2])
    \/ \E qi \in QueryInputs, out \in SaveOutcomes : delete(qi[1], qi[2], out)

Spec == Init /\ [][Next]_vars

\* The collection operations on richer collections: every write succeeds, and
\* the vault is never locked again once initialized.
NextCrud ==
    \/ \E pw \in Passwords : init(pw, "Ok")
    \/ \E in \in CrudInputs : add(in[1], in[2], "Ok")
    \/ \E qi \in CrudQueries : get(qi[1], qi[2])
    \/ \E qi \in CrudQueries : delete(qi[1], qi[2], "Ok")

SpecCrud == Init /\ [][NextCrud]_vars

\* Add, get and delete on the passwords alone.
NextOneKind ==
    \/ \E pw \in Passwords : init(pw, "Ok")
    \/ \E e \in OneKindInputs : add("passwords", e, "Ok")
    \/ \E q \in OneKindQueries : get("passwords", q)
    \/ \E q \in OneKindQueries : delete("passwords", q, "Ok")

SpecOneKind == Init /\ [][NextOneKind]_vars

\* The lock/unlock round trip.
NextTrip ==
    \/ \E pw \in Passwords, out \in SaveOutcomes : init(pw, out)
    \/ \E pw \in Passwords, ld \in LoadOutcomes : unlock(pw, ld)
    \/ lock
    \/ \E in \in TripInputs, out \in SaveOutcomes : add(in[1], in[2], out)
    \/ \E qi \in TripQueries, out \in SaveOutcomes : delete(qi[1], qi[2], out)

SpecTrip == Init /\ [][NextTrip]_vars

(***************************************************************************)
(* The environment: what happens to the vault file outside the handle      *)
(***************************************************************************)
\* A byte of the persisted encrypted_data token is flipped.
tamper_token ==
    /\ exists
    /\ file[1].encrypted_data.tag
    /\ file' = Some([file[1] EXCEPT !.encrypted_data.tag = FALSE])
    /\ session' = NoSession
    /\ UNCHANGED <<data, key, salt, salts, now, last, sinceLock, residue, again>>

\* The stored salt is corrupted into a string that is no salt encoding.
tamper_salt ==
    /\ exists
    /\ file[1].salt # MalformedSalt
    /\ file' = Some([file[1] EXCEPT !.salt = MalformedSalt])
    /\ session' = NoSession
    /\ UNCHANGED <<data, key, salt, salts, now, last, sinceLock, residue, again>>

\* Another Vault handle on the same path runs init_force(pw) to success.
other_init_force(pw) ==
    /\ salts < MaxSalts
    /\ salts' = salts + 1
    /\ file' = save(VaultDataDefault, derive_key(pw, generate_salt(salts)),
                    generate_salt(salts), file, now, "Ok").file
    /\ session' = NoSession
    /\ UNCHANGED <<data, key, salt, now, last, sinceLock, residue, again>>

\* The life cycle under interference, on a small collection.
EnvInputs == {<<"passwords", e1>>}
EnvQueries == {<<"passwords", "gh">>}

NextEnv ==
    \/ new
    \/ \E pw \in Passwords, out \in SaveOutcomes : init(pw, out)
    \/ \E pw \in Passwords, out \in SaveOutcomes : init_force(pw, out)
    \/ \E pw \in Passwords, ld \in LoadOutcomes : unlock(pw, ld)
    \/ lock
    \/ \E out \in SaveOutcomes : save_call(out)
    \/ \E in \in EnvInputs, out \in SaveOutcomes : add(in[1], in[2], out)
    \/ \E qi \in EnvQueries, out \in SaveOutcomes : delete(qi[1], qi[2], out)
    \/ tamper_token
    \/ tamper_salt
    \/ \E pw \in Passwords : other_init_force(pw)

SpecEnv == Init /\ [][NextEnv]_vars

(***************************************************************************)
(* The clock                                                               *)
(***************************************************************************)
tick ==
    /\ now < MaxTime
    /\ now' = now + 1
    /\ UNCHANGED <<data, key, salt, file, salts, last, session, sinceLock, residue, again>>

NextClock ==
    \/ \E pw \in Passwords, out \in SaveOutcomes : init(pw, out)
    \/ \E pw \in Passwords, ld \in LoadOutcomes : unlock(pw, ld)
    \/ lock
    \/ \E out \in SaveOutcomes : save_call(out)
    \/ \E in \in EnvInputs, out \in SaveOutcomes : add(in[1], in[2], out)
    \/ \E qi \in EnvQueries, out \in SaveOutcomes : delete(qi[1], qi[2], out)
    \/ tick

SpecClock == Init /\ [][NextClock]_vars

(***************************************************************************)
(* Properties                                                              *)
(***************************************************************************)
Names(s) == {s[i].name : i \in 1..Len(s)}

\* What a call that reaches save() with collection d leaves behind.
SaveAttempted(d) ==
    \/ /\ key = None
       /\ last'.res = "WrongPassword"
       /\ file' = file
    \/ /\ key # None
       /\ last'.res \in {"EncryptionError", "IoError"}
       /\ file' = file
    \/ /\ key # None
       /\ last'.res = "Ok"
       /\ file' # None
       /\ file'[1].salt = salt
       /\ decrypt(key[1], file'[1].encrypted_data) = Some(to_vec(d))

\* C1: after init(P) returned Ok and every add/delete since returned Ok,
\* lock() followed by unlock(P) returns Ok and leaves the in-memory collection
\* exactly as it was before the lock: same entries, same fields, same order.
C1_RoundTrip ==
    [][\A pw \in Passwords :
          (session = [pw |-> pw, st |-> "locked"] /\ unlock(pw, "Ok"))
          => (last'.res = "Ok" /\ key' # None /\ data' = data)]_vars

\* C1 witness: the unlock of such a round trip has returned, on a collection
\* with two passwords (the later-added id first) and an api key.
C1_Witness ==
    /\ session.st = "reloaded"
    /\ last.op = "unlock" /\ last.res = "Ok"
    /\ data.passwords = <<e2, e1>>
    /\ data.api_keys = <<e3>>

\* C2: in every reachable state no sequence of the in-memory collection holds
\* two entries with the same name.
C2_NameUnique ==
    \A k \in KindSet : \A i, j \in 1..Len(data[k]) :
        i # j => data[k][i].name # data[k][j].name

\* C2 witness: an add of a second entry named "gh" was rejected while the
\* vault was locked and the vault file existed.
C2_Witness ==
    /\ last = [op |-> "add", arg |-> "u3", res |-> "DuplicateName", ret |-> None]
    /\ data.passwords = <<e1>>
    /\ key = None
    /\ file # None

\* C3: add fails with DuplicateName exactly when the sequence of the same kind
\* holds an entry of that name; then memory and file are unchanged; otherwise
\* the entry is appended at the end of its kind's sequence and save is attempted.
C3_AddContract ==
    [][\A in \in CrudInputs, out \in SaveOutcomes :
          add(in[1], in[2], out) =>
              IF in[2].name \in Names(data[in[1]])
              THEN /\ last'.res = "DuplicateName"
                   /\ data' = data
                   /\ file' = file
              ELSE /\ last'.res # "DuplicateName"
                   /\ data' = [data EXCEPT ![in[1]] = Append(data[in[1]], in[2])]
                   /\ SaveAttempted(data')]_vars

\* C3 witness: e3 (named "gh") was appended after two passwords while the api
\* keys hold an entry named "gh" too, and the save succeeded.
C3_Witness ==
    /\ last = [op |-> "add", arg |-> "u3", res |-> "Ok", ret |-> None]
    /\ data.passwords = <<e2, e4, e3>>
    /\ data.api_keys = <<e1>>

\* The lookup rule as the specification words it: the first entry whose id is
\* q, and only if there is none the first entry whose name is q.
FirstWith(s, P(_)) ==
    IF \E i \in 1..Len(s) : P(s[i])
    THEN Some(s[CHOOSE i \in 1..Len(s) :
                    P(s[i]) /\ \A j \in 1..Len(s) : P(s[j]) => i <= j])
    ELSE None

IdFirst(s, q) ==
    LET ById(e) == e.id = q
        ByName(e) == e.name = q
    IN  IF FirstWith(s, ById) # None THEN FirstWith(s, ById)
        ELSE FirstWith(s, ByName)

\* The first entry, in sequence order, whose id or name is q.
FirstEither(s, q) ==
    LET Either(e) == e.id = q \/ e.name = q
    IN  FirstWith(s, Either)

\* C4 as claimed: get returns the entry chosen by id first, then by name
\* (not-found if neither exists), and changes no state.
C4_GetIdFirst ==
    [][\A qi \in CrudQueries :
          get(qi[1], qi[2]) =>
              /\ last'.ret = IdFirst(data[qi[1]], qi[2])
              /\ UNCHANGED <<data, key, salt, file>>]_vars

\* C4 amended: get returns the first entry in sequence order whose id or name
\* equals q (an earlier entry named q wins over a later entry whose id is q),
\* not-found if there is none, and changes no state.
C4_GetFirstEither ==
    [][\A qi \in CrudQueries :
          get(qi[1], qi[2]) =>
              /\ last'.ret = FirstEither(data[qi[1]], qi[2])
              /\ UNCHANGED <<data, key, salt, file>>]_vars

\* C4 witness: get("gh") returned e1, named "gh", although e2 later in the
\* sequence has id "gh".
C4_Witness ==
    /\ last = [op |-> "get", arg |-> "gh", res |-> "Some", ret |-> Some(e1)]
    /\ data.passwords = <<e4, e1, e2>>

\* The sequence s without its element x.
Without(s, x) == SelectSeq(s, LAMBDA y : y # x)

\* C5 as claimed: the same contract with the entry chosen by id first, then
\* by name.
C5_DeleteIdFirst ==
    [][\A qi \in CrudQueries, out \in SaveOutcomes :
          delete(qi[1], qi[2], out) =>
              LET hit == IdFirst(data[qi[1]], qi[2])
              IN  IF hit = None
                  THEN /\ last'.res = "SecretNotFound"
                       /\ data' = data
                       /\ file' = file
                  ELSE /\ last'.res # "SecretNotFound"
                       /\ data' = [data EXCEPT ![qi[1]] = Without(@, hit[1])]
                       /\ SaveAttempted(data')
                       /\ last'.res = "Ok" => last'.ret = hit]_vars

\* C5 amended: delete looks up as get does (first entry in order whose id or
\* name equals q): no match fails with SecretNotFound and changes neither
\* memory nor file; otherwise exactly the entry get would have returned is
\* removed, every other entry of every kind keeps its place in order, save is
\* attempted, and on success the removed entry is returned.
C5_DeleteContract ==
    [][\A qi \in CrudQueries, out \in SaveOutcomes :
          delete(qi[1], qi[2], out) =>
              LET hit == find(data[qi[1]], qi[2])
              IN  IF hit = None
                  THEN /\ last'.res = "SecretNotFound"
                       /\ data' = data
                       /\ file' = file
                  ELSE /\ last'.res # "SecretNotFound"
                       /\ data' = [data EXCEPT ![qi[1]] = Without(@, hit[1])]
                       /\ SaveAttempted(data')
                       /\ last'.res = "Ok" => last'.ret = hit]_vars

\* C5 witness: delete("gh") removed and returned e1 (named "gh") from between
\* e4 and e2 (whose id is "gh"), which keep their order.
C5_Witness ==
    /\ last = [op |-> "delete", arg |-> "gh", res |-> "Ok", ret |-> Some(e1)]
    /\ data.passwords = <<e4, e2>>
    /\ data.api_keys = <<e1>>

\* C6: whenever unlock reaches decryption and it fails, it returns
\* WrongPassword, stores no key and leaves the in-memory collection alone; and
\* decryption does fail both when the password is not the one the file was
\* saved under and when the token was altered (whatever the password).
C6_UniformWrongPassword ==
    [][\A pw \in Passwords :
          (unlock(pw, "Ok") /\ exists /\ derive_key(pw, file[1].salt) # None) =>
              LET tok == file[1].encrypted_data
                  k == derive_key(pw, file[1].salt)[1]
              IN  /\ (~tok.tag \/ tok.key.pw # pw) => decrypt(k, tok) = None
                  /\ decrypt(k, tok) = None =>
                         /\ last'.res = "WrongPassword"
                         /\ key' = key
                         /\ data' = data]_vars

\* C6 witness: unlock("p1") returned WrongPassword on a file saved under "p1"
\* whose token was altered, while a key and a collection were held.
C6_Witness ==
    /\ last = [op |-> "unlock", arg |-> "p1", res |-> "WrongPassword", ret |-> None]
    /\ file # None
    /\ ~file[1].encrypted_data.tag
    /\ file[1].encrypted_data.key.pw = "p1"
    /\ key = derive_key("p1", file[1].salt)
    /\ data.passwords = <<e1>>

\* C7: init on an existing file returns AlreadyExists and leaves key, salt,
\* collection and file as they were.
C7_InitAlreadyExists ==
    [][\A pw \in Passwords, out \in SaveOutcomes :
          (init(pw, out) /\ exists) =>
              /\ last'.res = "AlreadyExists"
              /\ UNCHANGED <<key, salt, data, file>>]_vars

\* C7 witness: init("p2") returned AlreadyExists on an unlocked vault that
\* holds a password.
C7_Witness ==
    /\ last = [op |-> "init", arg |-> "p2", res |-> "AlreadyExists", ret |-> None]
    /\ key # None
    /\ key[1].pw = "p1"
    /\ data.passwords = <<e1>>
    /\ file # None

\* C8: when no file exists and init(P) returns Ok, the key derived from P and
\* the new salt is held, all five sequences are empty, and the file exists
\* with version 1, a salt no earlier call generated, and a token that decrypts
\* under that key to the empty collection.
C8_InitOk ==
    [][\A pw \in Passwords, out \in SaveOutcomes :
          (init(pw, out) /\ ~exists /\ last'.res = "Ok") =>
              /\ file' # None
              /\ file'[1].version = 1
              /\ file'[1].salt \notin 0..salts
              /\ salt' = file'[1].salt
              /\ key' # None
              /\ key' = derive_key(pw, file'[1].salt)
              /\ \A k \in KindSet : data'[k] = << >>
              /\ decrypt(key'[1], file'[1].encrypted_data) # None
              /\ from_slice(decrypt(key'[1], file'[1].encrypted_data)[1])
                     = [k \in KindSet |-> << >>]]_vars

\* C8 witness: init("p2") returned Ok with the second salt generated (an
\* earlier init failed at its write).
C8_Witness ==
    /\ last = [op |-> "init", arg |-> "p2", res |-> "Ok", ret |-> None]
    /\ salts = 2
    /\ file # None
    /\ key # None

\* C9: unlock with no file returns NotInitialized and leaves key, salt and
\* collection as they were, and creates no file.
C9_UnlockNotInitialized ==
    [][\A pw \in Passwords, ld \in LoadOutcomes :
          (unlock(pw, ld) /\ ~exists) =>
              /\ last'.res = "NotInitialized"
              /\ UNCHANGED <<key, salt, data>>
              /\ file' = None]_vars

\* C9 witness: unlock returned NotInitialized while the in-memory collection
\* held an entry and no file existed.
C9_Witness ==
    /\ last = [op |-> "unlock", arg |-> "p1", res |-> "NotInitialized", ret |-> None]
    /\ file = None
    /\ data.passwords = <<e1>>

\* A call that reaches save(): save itself, an add past its duplicate check,
\* a delete past its lookup.
ReachesSave ==
    \/ \E out \in SaveOutcomes : save_call(out)
    \/ \E in \in AddInputs, out \in SaveOutcomes :
           add(in[1], in[2], out) /\ last'.res # "DuplicateName"
    \/ \E qi \in QueryInputs, out \in SaveOutcomes :
           delete(qi[1], qi[2], out) /\ last'.res # "SecretNotFound"

\* C10, first sentence: a call that reaches save() with no key held returns
\* WrongPassword and does not write the file.
C10_SaveNeedsKey ==
    [][(ReachesSave /\ key = None) =>
          (last'.res = "WrongPassword" /\ file' = file)]_vars

\* C10 as claimed: from lock() until an unlock, init or init_force returns Ok,
\* every call that reaches save() returns WrongPassword and leaves the file
\* unchanged.
C10_LockedUntilReopened ==
    [][(sinceLock /\ ReachesSave) =>
          (last'.res = "WrongPassword" /\ file' = file)]_vars

\* An add_* or delete_* call, whatever it returns.
Mutator ==
    \/ \E in \in AddInputs, out \in SaveOutcomes : add(in[1], in[2], out)
    \/ \E qi \in QueryInputs, out \in SaveOutcomes : delete(qi[1], qi[2], out)

\* C11 as claimed: from lock() until an unlock, init or init_force returns Ok,
\* no add_* or delete_* call changes the Secret Collection, neither the one in
\* memory nor the contents of the vault file.
C11_NoMutationWhileLocked ==
    [][(sinceLock /\ Mutator) => (data' = data /\ file' = file)]_vars

\* C12 as claimed: unlock returns Ok only if, just before the call, the vault
\* file existed and no key was held.
C12_UnlockOnlyFromLocked ==
    [][\A pw \in Passwords, ld \in LoadOutcomes :
          (unlock(pw, ld) /\ last'.res = "Ok") => (exists /\ key = None)]_vars

\* C12, as the code has it: unlock(P) returns Ok only if, just before the call,
\* the vault file existed, was read, and its token decrypts under the key
\* derived from P and the file's salt; it then holds that key and salt and
\* the collection read from the file, whether or not a key was held before.
C12_UnlockOk ==
    [][\A pw \in Passwords, ld \in LoadOutcomes :
          (unlock(pw, ld) /\ last'.res = "Ok") =>
              /\ exists
              /\ ld = "Ok"
              /\ LET vault_file == file[1]
                     k == derive_key(pw, vault_file.salt)
                 IN  /\ k # None
                     /\ decrypt(k[1], vault_file.encrypted_data) # None
                     /\ key' = k
                     /\ salt' = vault_file.salt
                     /\ data' = from_slice(decrypt(k[1], vault_file.encrypted_data)[1])
                     /\ file' = file]_vars

\* unlock(P) has returned Ok on a handle that held the key of init(P): the
\* vault was Unlocked just before the call.
C12_Witness ==
    /\ last.op = "unlock"
    /\ last.res = "Ok"
    /\ session.st = "reopened"
    /\ key # None

\* C13: init_force(P) never returns AlreadyExists, and from any state, when it
\* returns Ok, the key derived from P and a salt no earlier call generated is
\* held, the in-memory collection is empty, and the file carries that salt and
\* a token that decrypts under that key to the empty collection; whatever
\* password a later unlock is given, the file yields either no collection or
\* the empty one, so no entry of the previous vault.
C13_InitForceOverwrites ==
    [][\A pw \in Passwords, out \in SaveOutcomes :
          init_force(pw, out) =>
              /\ last'.res # "AlreadyExists"
              /\ (last'.res = "Ok") =>
                    /\ key' # None
                    /\ key' = derive_key(pw, salt')
                    /\ data' = VaultDataDefault
                    /\ file' # None
                    /\ file'[1].salt = salt'
                    /\ salt' \notin 0..salts
                    /\ exists => file'[1].salt # file[1].salt
                    /\ \A pw2 \in Passwords :
                          LET k2 == derive_key(pw2, file'[1].salt)
                              d  == IF k2 = None THEN None
                                    ELSE decrypt(k2[1], file'[1].encrypted_data)
                          IN  /\ pw2 = pw => d # None
                              /\ d # None => from_slice(d[1]) = VaultDataDefault]_vars

\* init_force has returned Ok over an earlier vault: the file carries the
\* second salt generated and the handle is Unlocked with nothing in memory.
C13_Witness ==
    /\ last.op = "init_force"
    /\ last.res = "Ok"
    /\ salts = 2
    /\ file # None
    /\ file[1].salt = 2
    /\ key # None
    /\ data = VaultDataDefault

\* The vault file holds exactly the collection d, encrypted under the held key.
FileHolds(f, d) ==
    /\ key # None
    /\ f # None
    /\ decrypt(key[1], f[1].encrypted_data) = Some(to_vec(d))

\* C14: with a key held, an add_* past its duplicate check, or a delete_* past
\* its lookup, whose save fails (encryption or write) returns that error,
\* leaves the file as it was and keeps the mutation in memory (the entry stays
\* appended, or stays removed), so a file that held the in-memory collection
\* before the call no longer does; and an add_* of the entry that a failed
\* add_* left in memory returns DuplicateName.
C14_NoRollback ==
    [][/\ \A in \in AddInputs, out \in SaveOutcomes \ {"Ok"} :
             (key # None /\ ~any_name(data[in[1]], in[2].name)
                  /\ add(in[1], in[2], out)) =>
                 /\ last'.res = out
                 /\ data' = [data EXCEPT ![in[1]] = Append(@, in[2])]
                 /\ file' = file
                 /\ key' = key
                 /\ FileHolds(file, data) => ~FileHolds(file', data')
       /\ \A qi \in QueryInputs, out \in SaveOutcomes \ {"Ok"} :
             (key # None /\ position(data[qi[1]], qi[2]) # 0
                  /\ delete(qi[1], qi[2], out)) =>
                 /\ last'.res = out
                 /\ data' = [data EXCEPT ![qi[1]] =
                                remove(@, position(data[qi[1]], qi[2]))]
                 /\ file' = file
                 /\ key' = key
                 /\ FileHolds(file, data) => ~FileHolds(file', data')
       /\ \A in \in AddInputs, out \in SaveOutcomes :
             (last.op = "add" /\ last.arg = in[2].id
                  /\ last.res \in SaveOutcomes \ {"Ok"}
                  /\ Len(data[in[1]]) > 0
                  /\ data[in[1]][Len(data[in[1]])] = in[2]
                  /\ add(in[1], in[2], out)) =>
                 /\ last'.res = "DuplicateName"
                 /\ UNCHANGED <<data, file>>]_vars

\* add_password(e1) has failed at its write with a key held: e1 is in memory
\* and the file, which opens under the held key, does not hold it.
C14_Witness ==
    /\ last = [op |-> "add", arg |-> "u1", res |-> "IoError", ret |-> None]
    /\ key # None
    /\ file # None
    /\ data.passwords = <<e1>>
    /\ decrypt(key[1], file[1].encrypted_data) = Some(to_vec(VaultDataDefault))

\* C15 as claimed: a save after init (save, add_*, delete_*) leaves the
\* envelope's created_at as it was and, when it writes, sets modified_at to
\* the time of that save.
C15_CreatedAtFixed ==
    [][(exists /\ (\/ \E out \in SaveOutcomes : save_call(out)
                   \/ \E in \in EnvInputs, out \in SaveOutcomes :
                          add(in[1], in[2], out)
                   \/ \E qi \in EnvQueries, out \in SaveOutcomes :
                          delete(qi[1], qi[2], out))) =>
          /\ file' # None
          /\ file'[1].created_at = file[1].created_at
          /\ (last'.res = "Ok") => file'[1].modified_at = now]_vars

\* C16: once the vault file exists, every init, lock, unlock (successful or
\* failed), add_*, delete_* and save leaves the file in place with the salt it
\* had, and that salt is the last one an init generated.
C16_SaltFixed ==
    [][(exists /\ (\/ \E pw \in Passwords, out \in SaveOutcomes : init(pw, out)
                   \/ \E pw \in Passwords, ld \in LoadOutcomes : unlock(pw, ld)
                   \/ lock
                   \/ \E out \in SaveOutcomes : save_call(out)
                   \/ \E in \in EnvInputs, out \in SaveOutcomes :
                          add(in[1], in[2], out)
                   \/ \E qi \in EnvQueries, out \in SaveOutcomes :
                          delete(qi[1], qi[2], out))) =>
          /\ file' # None
          /\ file'[1].salt = file[1].salt
          /\ file[1].salt = generate_salt(salts - 1)]_vars

\* After init, an add_password has rewritten the file, the vault was locked,
\* and an unlock has just failed with WrongPassword: the file still carries
\* the salt that init generated.
C16_Witness ==
    /\ last.op = "unlock"
    /\ last.res = "WrongPassword"
    /\ key = None
    /\ file # None
    /\ file[1].salt = generate_salt(0)
    /\ file[1].encrypted_data.pt = to_vec([VaultDataDefault EXCEPT !.passwords = <<e1>>])

\* C17 as claimed: right after a delete_password(q) that returned Ok, a further
\* delete_password(q) returns SecretNotFound and get_password(q) returns
\* not-found.
C17_SecondDeleteFails ==
    [][\A q \in OneKindQueries :
          (last.op = "delete" /\ last.res = "Ok" /\ last.arg = q) =>
              /\ delete("passwords", q, "Ok") => last'.res = "SecretNotFound"
              /\ get("passwords", q) => last'.res = "None"]_vars

\* C17, as the code has it: right after a delete_password(q) that returned Ok,
\* a further delete_password(q) returns SecretNotFound and changes nothing, and
\* get_password(q) returns not-found, when no remaining entry has id q or name
\* q; when one has, the delete returns Ok with the first such entry and removes
\* it, and the get returns it.
C17_SecondDelete ==
    [][\A q \in OneKindQueries :
          (last.op = "delete" /\ last.res = "Ok" /\ last.arg = q) =>
              LET s == data.passwords
                  rest == \E i \in 1..Len(s) : s[i].id = q \/ s[i].name = q
              IN  /\ delete("passwords", q, "Ok") =>
                        IF rest
                        THEN /\ last'.res = "Ok"
                             /\ last'.ret = FirstEither(s, q)
                             /\ data'.passwords = Without(s, last'.ret[1])
                        ELSE /\ last'.res = "SecretNotFound"
                             /\ UNCHANGED <<data, file>>
                  /\ get("passwords", q) =>
                        IF rest
                        THEN last'.res = "Some" /\ last'.ret = FirstEither(s, q)
                        ELSE last'.res = "None"]_vars

\* delete_password("gh") returned Ok and the delete_password("gh") after it
\* has returned SecretNotFound.
C17_Witness ==
    /\ again
    /\ last = [op |-> "delete", arg |-> "gh", res |-> "SecretNotFound", ret |-> None]

\* C18 as claimed: when lock() returns, the memory that held the key has been
\* overwritten: no bytes of the key remain in the field lock() cleared.
C18_LockWipesKey ==
    (last.op = "lock") => (residue = None)

\* C19 as claimed: in every reachable state the vault is Uninitialized (no
\* file, no key), Locked (file, no key) or Unlocked (file, key): a key is never
\* held while no vault file exists.
C19_KeyOnlyWithFile ==
    (key # None) => exists

\* C20 as claimed: in every reachable state where a key is held, the held salt
\* is the salt that key was derived from.
C20_KeySaltPaired ==
    (key # None) => (key[1].salt = salt)

\* The decrypted contents of the vault file f hold the password e.
InFile(f, e) ==
    /\ f # None
    /\ f[1].encrypted_data.tag
    /\ \E i \in 1..Len(from_slice(f[1].encrypted_data.pt).passwords) :
           from_slice(f[1].encrypted_data.pt).passwords[i] = e

SaveErrors == {"WrongPassword", "EncryptionError", "IoError"}

\* C21 as claimed: after add_password(e1) returned an error, no call other
\* than an add_password(e1) puts e1 into the decrypted contents of the file;
\* and after delete_password("gh") returned an error past its lookup, no call
\* other than a delete_password("gh") takes e1 out of them.
C21_FailedNotDurable ==
    [][/\ (/\ last.op = "add" /\ last.arg = e1.id /\ last.res \in SaveErrors
           /\ ~InFile(file, e1)
           /\ ~(\E out \in SaveOutcomes : add("passwords", e1, out)))
          => ~InFile(file', e1)
       /\ (/\ last.op = "delete" /\ last.arg = "gh" /\ last.res \in SaveErrors
           /\ InFile(file, e1)
           /\ ~(\E out \in SaveOutcomes : delete("passwords", "gh", out)))
          => InFile(file', e1)]_vars

====
